---- MODULE Spec2Model ----
(***************************************************************************)
(* tiny-deep-research: the recursive research orchestrator                 *)
(* (tiny_deep_research/deep_research.py) and the scrape fan-out of         *)
(* SearchAndScrapeManager.search_and_scrape                                *)
(* (tiny_deep_research/data_search/search_scraper_mgr.py).                 *)
(*                                                                         *)
(* asyncio is cooperative: a coroutine runs until its next suspending      *)
(* await.  Every action below is one such run: it starts where a task is   *)
(* resumed (a collaborator call returns or raises, a semaphore permit is   *)
(* granted, a gather completes) and ends at the next suspension.           *)
(*                                                                         *)
(* An invocation of deep_research is named by the path of branch indices   *)
(* leading to it (the root is <<>>); branch i of invocation p is named     *)
(* Append(p, i), which is also the name of the invocation that branch      *)
(* calls recursively.                                                      *)
(*                                                                         *)
(* Python lists are modelled as bags: the code never reads a position of   *)
(* learnings / visited_urls, and the order of list(set(..)) is             *)
(* unspecified.                                                            *)
(*                                                                         *)
(* The pure functions have specifications of their own, which draw their   *)
(* arguments in Init and apply them in one step: the parsing of the LLM    *)
(* reply in generate_serp_queries, process_serp_result and                 *)
(* write_final_report (SpecParse), and                                     *)
(* RecursiveCharacterTextSplitter.split_text with merge_splits and         *)
(* _join_docs (SpecSplit), where a str is the sequence of its characters.  *)
(* trim_prompt (SpecTrim) takes one step for each of its calls, and        *)
(* RecursiveTextSplitter.split_with_positions (SpecPositions) one step for *)
(* the test and one for the body of its while loop.  SpecService is one    *)
(* SearchServices instance with the coroutines that search on it.          *)
(***************************************************************************)
EXTENDS Integers, Sequences, FiniteSets, Bags, TLC

\* ------------------------------------------------------------------ bounds
MaxBreadth == 4
MaxDepth == 2
MaxConcurrency == 2
MaxQueries == 2
MaxResults == 3
MaxScrapes == 2
MaxChainBreadth == 16
MaxLevel == 6
MaxItems == 4
MaxNum == 2
MaxTextLen == 4
MaxChunkSize == 3
MaxCallers == 3
MaxOverlap == 1
MaxWordLen == 60
MaxWords == 4
MaxCharsPerToken == 4
MaxContextSize == 250

\* Deepest path the model has room for: one level more than any run needs.
MaxNest == MaxDepth + 1

Min(a, b) == IF a < b THEN a ELSE b
Max(a, b) == IF a > b THEN a ELSE b

Front(s) == SubSeq(s, 1, Len(s) - 1)

Root == << >>
InvIds == UNION {[1..k -> 1..MaxQueries] : k \in 0..(MaxNest - 1)}
BranchIds == UNION {[1..k -> 1..MaxQueries] : k \in 1..MaxNest}

URLS == <<"u1", "u2">>
LEARNINGS == <<"l1", "l2">>

\* The web and the extractor LLM as seen by branch b: sibling branches find
\* different URLs, a branch and its first descendant find the same one;
\* sibling branches extract the same learning.
UrlOf(b) == URLS[((b[Len(b)] - 1) % 2) + 1]
LearningOf(b) == LEARNINGS[((Len(b) - 1) % 2) + 1]

\* result["data"] of search_service.search, reduced to its urls: the pages
\* found, or nothing (SearchServices.search turns a provider failure into
\* {"data": []}).
SearchOutcomes(b) == {SetToBag({UrlOf(b)}), EmptyBag}
\* new_learnings["learnings"] of process_serp_result.
ExtractOutcomes(b) == {SetToBag({LearningOf(b)})}

VARIABLES inv, br, calls, scr, chain, llm, txt, svc, trm, swp

vars == <<inv, br, calls, scr, chain, llm, txt, svc, trm, swp>>

EmptyResult == [learnings |-> EmptyBag, visited_urls |-> EmptyBag]

NoInv == [st |-> "none", breadth |-> 0, depth |-> 0, concurrency |-> 0,
          learnings |-> EmptyBag, visited_urls |-> EmptyBag,
          llm_queries |-> 0, serp_queries |-> 0, semaphore |-> 0,
          result |-> EmptyResult]

\* raised_in: the call of process_query whose exception reached the except
\* clause ("" when none did)
NoBranch == [st |-> "none", new_urls |-> EmptyBag, new_learnings |-> EmptyBag,
             failed |-> FALSE, raised_in |-> "", result |-> EmptyResult]

NoCalls == [planner |-> 0, search |-> 0, extract |-> 0, recurse |-> 0]

NoScr == [st |-> "none", scrape_all |-> FALSE, max_concurrent_scrapes |-> 0,
          search_results |-> << >>, semaphore |-> 0,
          task |-> [i \in 1..MaxResults |-> "none"],
          scraped_contents |-> << >>]

NoChain == [b0 |-> 1, k |-> 0, breadth |-> 1]

\* a value of an LLM reply after json.loads, as far as the code looks into
\* it: its JSON kind and, for an array, the kinds of its items
Absent == [kind |-> "absent", items |-> << >>]

NoLlm == [fn |-> "none", st |-> "none", llm_response |-> Absent, num |-> 0,
          visited_urls |-> << >>, value |-> Absent]

NoTxt == [st |-> "none", text |-> << >>, chunk_size |-> 1, chunk_overlap |-> 0,
          separators |-> << >>, final_chunks |-> << >>]

\* no SearchServices instance in use
NoSvc == [st |-> "none", owner |-> "none", manager |-> FALSE,
          initialized |-> FALSE, setups |-> 0, teardowns |-> 0,
          concurrency |-> 0, semaphore |-> 0,
          call |-> [i \in 1..MaxCallers |-> "none"], cleanup |-> "none"]

\* no trim_prompt call
NoTrm == [st |-> "none", text |-> << >>, context_size |-> 0,
          chars_per_token |-> 1, pass |-> 0, prompt |-> << >>,
          paths |-> << >>, first |-> << >>, value |-> << >>]

\* no split_with_positions call
NoSwp == [st |-> "none", text |-> << >>, chunk_size |-> 1, chunk_overlap |-> 0,
          separators |-> << >>, separator |-> << >>, splits |-> << >>,
          merged |-> << >>]

\* ------------------------------------------------------- deep_research.py
\* new_breadth = max(1, breadth // 2)
NewBreadthCeil(breadth) == Max(1, (breadth + 1) \div 2)
NewBreadth(breadth) == Max(1, breadth \div 2)

\* new_depth = depth - 1
NewDepthSame(depth) == depth
NewDepth(depth) == depth - 1

\* if new_depth > 0:
ShouldRecurseAtZero(new_depth) == new_depth >= 0
ShouldRecurse(new_depth) == new_depth > 0

\* [SerpQuery(**q) for q in queries][:num_queries], as a number of queries
TakeQueriesAll(m, num_queries) == m
TakeQueries(m, num_queries) == Min(m, num_queries)

\* all_learnings = learnings + new_learnings["learnings"] builds a new list:
\* the list `learnings` of the invocation is what it was
LearningsAfterExtend(learnings, all_learnings) == all_learnings
LearningsAfterConcat(learnings, all_learnings) == learnings

\* all_urls = visited_urls + new_urls builds a new list: the list
\* `visited_urls` of the invocation is what it was
UrlsAfterExtend(visited_urls, all_urls) == all_urls
UrlsAfterConcat(visited_urls, all_urls) == visited_urls

\* semaphore = asyncio.Semaphore(concurrency)
NewSemaphoreExtra(concurrency) == concurrency + 1
NewSemaphore(concurrency) == concurrency

\* [process_query(query) for query in serp_queries]: the indices of the
\* branch tasks handed to asyncio.gather
FanOutDefault(serp_queries) == 1..Max(1, serp_queries)
FanOut(serp_queries) == 1..serp_queries

\* the tasks of invocation p
Tasks(p) == {b \in BranchIds : Front(b) = p /\ br[b].st # "none"}

\* list(set(x for result in results for x in result[..]))
RECURSIVE BagSum(_)
BagSum(bags) ==
    IF bags = {} THEN EmptyBag
    ELSE LET x == CHOOSE y \in bags : TRUE IN x (+) BagSum(bags \ {x})
ListSetKeepDup(bags) == BagSum(bags)
ListSet(bags) == SetToBag(UNION {BagToSet(x) : x \in bags})

\* the return value of deep_research p, computed from the gathered results
Aggregated(p) ==
    [learnings |-> ListSet({br[b].result.learnings : b \in Tasks(p)}),
     visited_urls |-> ListSet({br[b].result.visited_urls : b \in Tasks(p)})]

\* except Exception: return {"learnings": [], "visited_urls": []}
ExceptResultPrior(b) ==
    [learnings |-> inv[Front(b)].learnings,
     visited_urls |-> inv[Front(b)].visited_urls]
ExceptResult(b) == EmptyResult

\* deep_research p is left with record rec; its caller, branch p of the
\* invocation above, leaves process_query with res (through return when
\* failed is FALSE, through the except clause when it is TRUE), which
\* releases the permit of `async with semaphore`.
Leave(p, rec, res, failed) ==
    IF p = Root
    THEN /\ inv' = [inv EXCEPT ![p] = rec]
         /\ br' = br
    ELSE /\ inv' = [inv EXCEPT ![p] = rec,
                               ![Front(p)].semaphore = @ + 1]
         /\ br' = [br EXCEPT ![p] = [@ EXCEPT !.st = "done",
                                              !.failed = failed,
                                              !.raised_in =
                                                  IF failed THEN "deep_research"
                                                  ELSE "",
                                              !.result = res]]

\* generate_serp_queries returns m parsed queries (m = 0 also stands for
\* the JSONDecodeError path, which returns []); deep_research creates the
\* semaphore and gathers one process_query task per query.  gather() of no
\* task is already complete, so the empty plan aggregates in the same run.
PlanReturn(p, m) ==
    /\ inv[p].st = "plan"
    /\ LET serp_queries == TakeQueries(m, inv[p].breadth)
           tasks == FanOut(serp_queries)
           started == [inv[p] EXCEPT
                          !.llm_queries = m,
                          !.serp_queries = serp_queries,
                          !.semaphore = NewSemaphore(inv[p].concurrency)]
       IN  IF tasks = {}
           THEN LET res == [learnings |-> ListSet({}),
                            visited_urls |-> ListSet({})]
                IN  Leave(p, [started EXCEPT !.st = "done", !.result = res],
                          res, FALSE)
           ELSE /\ inv' = [inv EXCEPT ![p] = [started EXCEPT !.st = "gather"]]
                /\ br' = [b \in BranchIds |->
                            IF Front(b) = p /\ b[Len(b)] \in tasks
                            THEN [NoBranch EXCEPT !.st = "wait"]
                            ELSE br[b]]
    /\ UNCHANGED <<calls, scr, chain, llm, txt, svc, trm, swp>>

\* generate_serp_queries raises (the reply is JSON of another shape: only
\* json.JSONDecodeError is caught).  The call is outside every try of
\* deep_research p, so p raises into its caller.
PlanRaise(p) ==
    /\ inv[p].st = "plan"
    /\ Leave(p, [inv[p] EXCEPT !.st = "raised"], ExceptResult(p), TRUE)
    /\ UNCHANGED <<calls, scr, chain, llm, txt, svc, trm, swp>>

\* async with semaphore: the branch takes a permit and calls
\* search_service.search
Acquire(b) ==
    /\ br[b].st = "wait"
    /\ inv[Front(b)].semaphore > 0
    /\ inv' = [inv EXCEPT ![Front(b)].semaphore = @ - 1]
    /\ br' = [br EXCEPT ![b].st = "search"]
    /\ calls' = [calls EXCEPT ![Front(b)].search = @ + 1]
    /\ UNCHANGED <<scr, chain, llm, txt, svc, trm, swp>>

\* search returns; new_urls is computed and process_serp_result is called
SearchReturn(b, urls) ==
    /\ br[b].st = "search"
    /\ br' = [br EXCEPT ![b] = [@ EXCEPT !.st = "extract", !.new_urls = urls]]
    /\ calls' = [calls EXCEPT ![Front(b)].extract = @ + 1]
    /\ UNCHANGED <<inv, scr, chain, llm, txt, svc, trm, swp>>

\* an exception inside the try of process_query: the except clause returns
\* the empty result and the permit is released
FailKeepPermit(b, call) ==
    /\ inv' = inv
    /\ br' = [br EXCEPT ![b] = [@ EXCEPT !.st = "done", !.failed = TRUE,
                                         !.raised_in = call,
                                         !.result = ExceptResult(b)]]
    /\ UNCHANGED <<calls, scr, chain, llm, txt, svc, trm, swp>>
Fail(b, call) ==
    /\ inv' = [inv EXCEPT ![Front(b)].semaphore = @ + 1]
    /\ br' = [br EXCEPT ![b] = [@ EXCEPT !.st = "done", !.failed = TRUE,
                                         !.raised_in = call,
                                         !.result = ExceptResult(b)]]
    /\ UNCHANGED <<calls, scr, chain, llm, txt, svc, trm, swp>>

\* search raises (ensure_initialized is outside the try of
\* SearchServices.search)
SearchRaise(b) ==
    /\ br[b].st = "search"
    /\ Fail(b, "search")

\* process_serp_result raises
ExtractRaise(b) ==
    /\ br[b].st = "extract"
    /\ Fail(b, "process_serp_result")

\* process_serp_result returns: merge, then recurse or return
ExtractReturn(b, new_learnings) ==
    /\ br[b].st = "extract"
    /\ LET p == Front(b)
           new_breadth == NewBreadth(inv[p].breadth)
           new_depth == NewDepth(inv[p].depth)
           all_learnings == inv[p].learnings (+) new_learnings
           all_urls == inv[p].visited_urls (+) br[b].new_urls
           kept_learnings == LearningsAfterConcat(inv[p].learnings,
                                                  all_learnings)
           kept_urls == UrlsAfterConcat(inv[p].visited_urls, all_urls)
       IN  IF ShouldRecurse(new_depth)
           THEN /\ Len(b) < MaxNest
                /\ inv' = [inv EXCEPT
                             ![p] = [@ EXCEPT !.learnings = kept_learnings,
                                              !.visited_urls = kept_urls],
                             ![b] =
                             [NoInv EXCEPT !.st = "plan",
                                           !.breadth = new_breadth,
                                           !.depth = new_depth,
                                           !.concurrency = inv[p].concurrency,
                                           !.learnings = all_learnings,
                                           !.visited_urls = all_urls]]
                /\ br' = [br EXCEPT ![b] =
                            [@ EXCEPT !.st = "recurse",
                                      !.new_learnings = new_learnings]]
                /\ calls' = [calls EXCEPT ![p].recurse = @ + 1,
                                          ![b].planner = 1]
           ELSE /\ inv' = [inv EXCEPT
                             ![p] = [@ EXCEPT !.semaphore = @ + 1,
                                              !.learnings = kept_learnings,
                                              !.visited_urls = kept_urls]]
                /\ br' = [br EXCEPT ![b] =
                            [@ EXCEPT !.st = "done",
                                      !.new_learnings = new_learnings,
                                      !.result = [learnings |-> all_learnings,
                                                  visited_urls |-> all_urls]]]
                /\ calls' = calls
    /\ UNCHANGED <<scr, chain, llm, txt, svc, trm, swp>>

\* results = await asyncio.gather(*[...]): the await ends when every task
\* handed to gather has returned
GatherFirstCompleted(p) == \E b \in Tasks(p) : br[b].st = "done"
GatherComplete(p) == \A b \in Tasks(p) : br[b].st = "done"

\* asyncio.gather completes: every task of p is done; p aggregates and
\* returns into the branch that awaited it
Aggregate(p) ==
    /\ inv[p].st = "gather"
    /\ GatherComplete(p)
    /\ LET res == Aggregated(p)
       IN  Leave(p, [inv[p] EXCEPT !.st = "done", !.result = res], res, FALSE)
    /\ UNCHANGED <<calls, scr, chain, llm, txt, svc, trm, swp>>

\* ------------------------------------------------- search_scraper_mgr.py
UrlLists == UNION {[1..k -> {"u1", "u2"}] : k \in 0..MaxResults}

\* scraped_contents[search_results[i].url] = result: the dict d with key
\* url bound to the result of position i
PutIfAbsent(d, url, i) ==
    [u \in DOMAIN d \cup {url} |-> IF u \in DOMAIN d THEN d[u] ELSE i]
Put(d, url, i) ==
    [u \in DOMAIN d \cup {url} |-> IF u = url THEN i ELSE d[u]]

\* for i, result in enumerate(scraped_results): an exception is skipped,
\* a result is stored under the url of search_results[i]
RECURSIVE ContentsLoop(_, _, _, _)
ContentsLoop(results, task, i, d) ==
    IF i > Len(results) THEN d
    ELSE IF task[i] = "err" THEN ContentsLoop(results, task, i + 1, d)
    ELSE ContentsLoop(results, task, i + 1, Put(d, results[i], i))

\* scraped_contents after the loop over scraped_results; the result of the
\* scrape at position i is written i
Contents(results, task) == ContentsLoop(results, task, 1, << >>)

\* semaphore = asyncio.Semaphore(max_concurrent_scrapes)
ScrapeSemaphoreExtra(max_concurrent_scrapes) == max_concurrent_scrapes + 1
ScrapeSemaphore(max_concurrent_scrapes) == max_concurrent_scrapes

\* self.search returns the result list
ScrSearchReturn(results) ==
    /\ scr.st = "search"
    /\ IF scr.scrape_all /\ results # << >>
       THEN scr' = [scr EXCEPT
                      !.st = "gather",
                      !.search_results = results,
                      !.semaphore = ScrapeSemaphore(scr.max_concurrent_scrapes),
                      !.task = [i \in 1..MaxResults |->
                                  IF i <= Len(results) THEN "wait" ELSE "none"]]
       ELSE scr' = [scr EXCEPT !.st = "done", !.search_results = results]
    /\ UNCHANGED <<inv, br, calls, chain, llm, txt, svc, trm, swp>>

\* self.search raises: search_and_scrape raises
ScrSearchRaise ==
    /\ scr.st = "search"
    /\ scr' = [scr EXCEPT !.st = "raised"]
    /\ UNCHANGED <<inv, br, calls, chain, llm, txt, svc, trm, swp>>

\* scrape_with_semaphore: async with semaphore, then self.scrape(url)
ScrapeAcquire(i) ==
    /\ scr.st = "gather"
    /\ scr.task[i] = "wait"
    /\ scr.semaphore > 0
    /\ scr' = [scr EXCEPT !.semaphore = @ - 1, !.task[i] = "run"]
    /\ UNCHANGED <<inv, br, calls, chain, llm, txt, svc, trm, swp>>

\* self.scrape returns (ok) or raises (err); either way the permit goes back
ScrapeEnd(i, how) ==
    /\ scr.st = "gather"
    /\ scr.task[i] = "run"
    /\ scr' = [scr EXCEPT !.semaphore = @ + 1, !.task[i] = how]
    /\ UNCHANGED <<inv, br, calls, chain, llm, txt, svc, trm, swp>>

\* gather(return_exceptions=True) completes; the loop fills scraped_contents
ScrapeCollect ==
    /\ scr.st = "gather"
    /\ \A i \in 1..Len(scr.search_results) : scr.task[i] \in {"ok", "err"}
    /\ scr' = [scr EXCEPT !.st = "done",
                          !.scraped_contents =
                              Contents(scr.search_results, scr.task)]
    /\ UNCHANGED <<inv, br, calls, chain, llm, txt, svc, trm, swp>>

\* ------------------------------------------------------------ breadth chain
\* the breadth handed down k levels: new_breadth applied once more
Halve ==
    /\ chain.k < MaxLevel
    /\ chain' = [chain EXCEPT !.k = @ + 1, !.breadth = NewBreadth(@)]
    /\ UNCHANGED <<inv, br, calls, scr, llm, txt, svc, trm, swp>>

\* ------------------------------------------- the replies of the LLM
\* num_learnings: int = 3
NumLearnings == 3

Seqs(S, n) == UNION {[1..k -> S] : k \in 0..n}

EmptyArray == [kind |-> "array", items |-> << >>]

\* the JSON values of a field that are not arrays ("string" and "object"
\* stand for a non-empty string and a non-empty object)
NotArrays == {[kind |-> k, items |-> << >>] :
                 k \in {"number", "string", "null", "object"}}

\* an item of "queries": an object with exactly the fields query and
\* research_goal holding strings (good) or other values (wrong_typed), an
\* object without one of them, an object with one more, not an object
QueryItems == {"good", "wrong_typed", "missing_field", "extra_field",
               "not_object"}
\* an item of "learnings" / "followUpQuestions"
TextItems == {"string", "number"}

Arrays(items) == {[kind |-> "array", items |-> q] : q \in Seqs(items, MaxItems)}

\* llm_response as generate_serp_queries may get it: text that is not JSON
\* (LLMService.get_response returns such a text when the request failed), a
\* JSON value that is not an object, or an object with or without "queries"
\* and with or without a field nobody asked for
PlannerReplies ==
    {[kind |-> k, extra |-> FALSE, queries |-> Absent] :
        k \in {"text", "array", "number", "string", "null"}}
    \cup {[kind |-> "object", extra |-> e, queries |-> q] :
             e \in BOOLEAN,
             q \in {Absent} \cup NotArrays \cup Arrays(QueryItems)}

\* llm_response as process_serp_result may get it
ExtractorReplies ==
    {[kind |-> k, extra |-> FALSE, learnings |-> Absent,
      followUpQuestions |-> Absent] :
        k \in {"text", "array", "number", "string", "null"}}
    \cup {[kind |-> "object", extra |-> e, learnings |-> l,
           followUpQuestions |-> f] :
             e \in BOOLEAN,
             l \in {Absent} \cup NotArrays \cup Arrays(TextItems),
             f \in {Absent} \cup NotArrays \cup Arrays(TextItems)}

\* response_json.get(name, [])
Get(field) == IF field = Absent THEN EmptyArray ELSE field

\* SerpQuery(**q) raises TypeError unless q is a mapping with exactly the
\* keys query and research_goal; the dataclass does not look at the values
SerpQueryRaises(q) == q \in {"missing_field", "extra_field", "not_object"}

\* value[:n]: a list or a str can be sliced, nothing else can
SliceRaises(value) == value.kind \notin {"array", "string"}
Slice(value, n) ==
    IF value.kind = "array"
    THEN [value EXCEPT !.items = SubSeq(@, 1, Min(Len(@), n))]
    ELSE value

\* the try of generate_serp_queries: only json.JSONDecodeError is caught
generate_serp_queries(llm_response, num_queries) ==
    LET raise == [raised |-> TRUE, value |-> << >>]
        queries == Get(llm_response.queries)
    IN  IF llm_response.kind = "text"
        THEN [raised |-> FALSE, value |-> << >>]
        ELSE IF llm_response.kind # "object" THEN raise
        ELSE IF queries.kind # "array" THEN raise
        ELSE IF \E i \in 1..Len(queries.items) :
                    SerpQueryRaises(queries.items[i])
             THEN raise
        ELSE [raised |-> FALSE,
              value |-> SubSeq(queries.items, 1,
                               Min(Len(queries.items), num_queries))]

\* the try of process_serp_result: only json.JSONDecodeError is caught
process_serp_result(llm_response, num_learnings, num_follow_up_questions) ==
    LET none == [learnings |-> EmptyArray, followUpQuestions |-> EmptyArray]
        raise == [raised |-> TRUE, value |-> none]
        learnings == Get(llm_response.learnings)
        followUpQuestions == Get(llm_response.followUpQuestions)
    IN  IF llm_response.kind = "text"
        THEN [raised |-> FALSE, value |-> none]
        ELSE IF llm_response.kind # "object" THEN raise
        ELSE IF SliceRaises(learnings) \/ SliceRaises(followUpQuestions)
             THEN raise
        ELSE [raised |-> FALSE,
              value |-> [learnings |-> Slice(learnings, num_learnings),
                         followUpQuestions |->
                             Slice(followUpQuestions,
                                   num_follow_up_questions)]]

\* generate_serp_queries gets the reply of the LLM and returns or raises
PlannerParse ==
    /\ llm.fn = "generate_serp_queries"
    /\ llm.st = "called"
    /\ LET r == generate_serp_queries(llm.llm_response, llm.num)
       IN  llm' = [llm EXCEPT !.st = IF r.raised THEN "raised" ELSE "returned",
                              !.value = r.value]
    /\ UNCHANGED <<inv, br, calls, scr, chain, txt, svc, trm, swp>>

\* process_serp_result gets the reply of the LLM and returns or raises
ExtractorParse ==
    /\ llm.fn = "process_serp_result"
    /\ llm.st = "called"
    /\ LET r == process_serp_result(llm.llm_response, NumLearnings, llm.num)
       IN  llm' = [llm EXCEPT !.st = IF r.raised THEN "raised" ELSE "returned",
                              !.value = r.value]
    /\ UNCHANGED <<inv, br, calls, scr, chain, txt, svc, trm, swp>>

\* A text of the report is the sequence of its lines, a line the sequence
\* of its parts: << >> is the empty line, <<"- ", u>> the line f"- {u}".
\* The texts an LLM puts in "reportMarkdown": "", a heading, a report that
\* has a sources heading of its own.
Reports == {<< << >> >>, << <<"# Report">> >>,
            << <<"# Report">>, <<"## Sources">>, <<"- ", "u1">> >>}

\* llm_response as write_final_report may get it: text that is not JSON, a
\* JSON value that is not an object, or an object whose "reportMarkdown" is
\* missing, a string, or a value of another type
ReportReplies ==
    {[kind |-> k, reportMarkdown |-> Absent] :
        k \in {"text", "array", "number", "string", "null"}}
    \cup {[kind |-> "object", reportMarkdown |-> m] :
             m \in {Absent}
                   \cup {[kind |-> k, items |-> << >>] :
                           k \in {"number", "null", "array"}}
                   \cup {[kind |-> "string", items |-> t] : t \in Reports}}

\* a + b for two str: the last line of a goes on with the first line of b
Concat(a, b) ==
    Front(a) \o << a[Len(a)] \o b[1] >> \o SubSeq(b, 2, Len(b))

\* "\n".join([f"- {url}" for url in visited_urls])
UrlLines(visited_urls) ==
    IF visited_urls = << >> THEN << << >> >>
    ELSE [i \in 1..Len(visited_urls) |-> <<"- ", visited_urls[i]>>]

\* "\n\n## Sources\n\n" + the url lines
UrlsSection(visited_urls) ==
    Concat(<< << >>, << >>, <<"## Sources">>, << >>, << >> >>,
           UrlLines(visited_urls))

\* the try of write_final_report: only json.JSONDecodeError is caught, and
\* its handler returns a fixed text
write_final_report(llm_response, visited_urls) ==
    LET raise == [raised |-> TRUE, value |-> << >>]
        report == IF llm_response.reportMarkdown = Absent
                  THEN [kind |-> "string", items |-> << << >> >>]
                  ELSE llm_response.reportMarkdown
    IN  IF llm_response.kind = "text"
        THEN [raised |-> FALSE, value |-> << <<"Error generating report">> >>]
        ELSE IF llm_response.kind # "object" THEN raise
        ELSE IF report.kind # "string" THEN raise
        ELSE [raised |-> FALSE,
              value |-> Concat(report.items, UrlsSection(visited_urls))]

\* write_final_report gets the reply of the LLM and returns or raises
ReportParse ==
    /\ llm.fn = "write_final_report"
    /\ llm.st = "called"
    /\ LET r == write_final_report(llm.llm_response, llm.visited_urls)
       IN  llm' = [llm EXCEPT !.st = IF r.raised THEN "raised" ELSE "returned",
                              !.value = r.value]
    /\ UNCHANGED <<inv, br, calls, scr, chain, txt, svc, trm, swp>>

\* ---------------------------------------------------------- text_splitter
\* A str is the sequence of its characters.  The characters: a letter, the
\* separators of the default list that are kept here, two of them
\* whitespace.
Chars == {"a", ".", " ", "\n"}
Whitespace == {" ", "\n"}
Texts == Seqs(Chars, MaxTextLen)

\* the default of `separators`, ["\n\n", "\n", ".", ..., " ", ""], over
\* Chars
DefaultSeparators == << <<"\n", "\n">>, <<"\n">>, <<".">>, <<" ">>, << >> >>
\* the lists a caller passes in `separators`
SeparatorLists == {DefaultSeparators, << <<".">> >>, << <<" ">>, << >> >>}

\* s occurs in text at position i
OccursAt(s, text, i) ==
    /\ i + Len(s) - 1 <= Len(text)
    /\ SubSeq(text, i, i + Len(s) - 1) = s
\* s in text
In(s, text) == \E i \in 1..Len(text) : OccursAt(s, text, i)
\* text.find(s) for an s that occurs
Find(s, text) ==
    CHOOSE i \in 1..Len(text) :
        /\ OccursAt(s, text, i)
        /\ \A j \in 1..(i - 1) : ~OccursAt(s, text, j)

\* text.split(separator) for a non-empty separator
RECURSIVE Split(_, _)
Split(text, separator) ==
    IF ~In(separator, text) THEN <<text>>
    ELSE LET i == Find(separator, text)
         IN  <<SubSeq(text, 1, i - 1)>>
                 \o Split(SubSeq(text, i + Len(separator), Len(text)), separator)

\* list(text)
ListOf(text) == [i \in 1..Len(text) |-> <<text[i]>>]

\* separator.join(docs)
RECURSIVE Join(_, _)
Join(docs, separator) ==
    IF docs = << >> THEN << >>
    ELSE IF Len(docs) = 1 THEN docs[1]
    ELSE docs[1] \o separator \o Join(Tail(docs), separator)

\* text.strip()
RECURSIVE LStrip(_)
LStrip(text) ==
    IF text # << >> /\ text[1] \in Whitespace THEN LStrip(Tail(text)) ELSE text
RECURSIVE RStrip(_)
RStrip(text) ==
    IF text # << >> /\ text[Len(text)] \in Whitespace
    THEN RStrip(SubSeq(text, 1, Len(text) - 1))
    ELSE text
Strip(text) == RStrip(LStrip(text))

\* _join_docs: the joined and stripped text; None is written << >>
join_docs_first(docs, separator) == Strip(docs[1])
join_docs(docs, separator) == Strip(Join(docs, separator))

\* while total > self.chunk_overlap or (total + _len > self.chunk_size and
\* total > 0): total -= len(current_doc[0]); current_doc.pop(0)
RECURSIVE DropFront(_, _, _, _, _)
DropFront(current_doc, total, len, chunk_size, chunk_overlap) ==
    IF total > chunk_overlap \/ (total + len > chunk_size /\ total > 0)
    THEN DropFront(Tail(current_doc), total - Len(Head(current_doc)), len,
                   chunk_size, chunk_overlap)
    ELSE [current_doc |-> current_doc, total |-> total]

\* a chunk: its text, and the pieces at its head that were kept from the
\* chunk closed before it, with the separator they are joined by
Doc(doc, kept, separator) ==
    [doc |-> doc, kept |-> kept, separator |-> separator]

\* the loop of merge_splits over splits from position i on, and the last
\* chunk after it; kept: the pieces at the head of current_doc that were in
\* the chunk closed last
RECURSIVE MergeLoop(_, _, _, _, _, _, _, _, _)
MergeLoop(splits, separator, chunk_size, chunk_overlap, i, docs, current_doc, total, kept) ==
    IF i > Len(splits)
    THEN LET doc == join_docs(current_doc, separator)
         IN  IF doc # << >> THEN Append(docs, Doc(doc, kept, separator))
             ELSE docs
    ELSE LET d == splits[i]
         IN  IF total + Len(d) >= chunk_size /\ current_doc # << >>
             THEN LET doc == join_docs(current_doc, separator)
                      rest == DropFront(current_doc, total, Len(d),
                                        chunk_size, chunk_overlap)
                  IN  MergeLoop(splits, separator, chunk_size, chunk_overlap,
                                i + 1,
                                IF doc # << >>
                                THEN Append(docs, Doc(doc, kept, separator))
                                ELSE docs,
                                Append(rest.current_doc, d),
                                rest.total + Len(d),
                                IF doc # << >> THEN rest.current_doc
                                ELSE << >>)
             ELSE MergeLoop(splits, separator, chunk_size, chunk_overlap,
                            i + 1, docs, Append(current_doc, d),
                            total + Len(d), kept)

merge_splits(splits, separator, chunk_size, chunk_overlap) ==
    MergeLoop(splits, separator, chunk_size, chunk_overlap,
              1, << >>, << >>, 0, << >>)

\* for s in self.separators: the first one that is "" or occurs in text,
\* self.separators[-1] when there is none
RECURSIVE FirstSeparator(_, _, _)
FirstSeparator(text, separators, i) ==
    IF i > Len(separators) THEN separators[Len(separators)]
    ELSE IF separators[i] = << >> \/ In(separators[i], text)
         THEN separators[i]
         ELSE FirstSeparator(text, separators, i + 1)

\* split_text: the chunks, or raised when the recursion does not end
\* (split_text(s) calls split_text(s) again: RecursionError)
RECURSIVE split_text(_, _, _, _), SplitLoop(_, _, _, _, _, _, _, _, _)
split_text(text, separators, chunk_size, chunk_overlap) ==
    LET separator == FirstSeparator(text, separators, 1)
        splits == IF separator # << >> THEN Split(text, separator)
                  ELSE ListOf(text)
    IN  SplitLoop(text, separators, chunk_size, chunk_overlap, separator,
                  splits, 1, << >>, << >>)

\* the loop of split_text over splits from position i on, and the last
\* merge after it
SplitLoop(text, separators, chunk_size, chunk_overlap, separator, splits, i, final_chunks, good_splits) ==
    LET merged == IF good_splits # << >>
                  THEN final_chunks \o merge_splits(good_splits, separator,
                                                    chunk_size, chunk_overlap)
                  ELSE final_chunks
    IN  IF i > Len(splits) THEN [raised |-> FALSE, final_chunks |-> merged]
        ELSE IF Len(splits[i]) < chunk_size
             THEN SplitLoop(text, separators, chunk_size, chunk_overlap,
                            separator, splits, i + 1, final_chunks,
                            Append(good_splits, splits[i]))
        ELSE IF splits[i] = text
             THEN [raised |-> TRUE, final_chunks |-> << >>]
        ELSE LET other_info == split_text(splits[i], separators, chunk_size,
                                          chunk_overlap)
             IN  IF other_info.raised THEN other_info
                 ELSE SplitLoop(text, separators, chunk_size, chunk_overlap,
                                separator, splits, i + 1,
                                merged \o other_info.final_chunks, << >>)

\* TextSplitter.__init__: ValueError when chunk_overlap >= chunk_size
Construct ==
    /\ txt.st = "new"
    /\ txt' = [txt EXCEPT !.st = IF txt.chunk_overlap >= txt.chunk_size
                                 THEN "ValueError" ELSE "ready"]
    /\ UNCHANGED <<inv, br, calls, scr, chain, llm, svc, trm, swp>>

\* splitter.split_text(text)
SplitText ==
    /\ txt.st = "ready"
    /\ LET r == split_text(txt.text, txt.separators, txt.chunk_size,
                           txt.chunk_overlap)
       IN  txt' = [txt EXCEPT !.st = IF r.raised THEN "RecursionError"
                                     ELSE "returned",
                              !.final_chunks = r.final_chunks]
    /\ UNCHANGED <<inv, br, calls, scr, chain, llm, svc, trm, swp>>

\* ------------------------------------------------------ utils/trim_prompt.py
MIN_CHUNK_SIZE == 140

\* len(encoder.encode(prompt)): the encoder is tiktoken's; here a token is
\* a run of chars_per_token characters, the last one of a text may be
\* shorter
TokenCount(prompt, chars_per_token) ==
    (Len(prompt) + chars_per_token - 1) \div chars_per_token

\* prompt[:n]
PrefixAll(prompt, n) == prompt
PrefixShort(prompt, n) == SubSeq(prompt, 1, Min(n, Len(prompt)) - 1)
Prefix(prompt, n) == SubSeq(prompt, 1, Min(n, Len(prompt)))

\* chunk_size = len(prompt) - overflow_tokens * 3
ChunkSize(prompt, length, context_size) ==
    Len(prompt) - (length - context_size) * 3

\* a word of n letters, and k such words joined by separator, with or
\* without blanks at the end
Word(n) == [i \in 1..n |-> "a"]
Prompts ==
    {<< >>} \cup
    {Join([i \in 1..k |-> Word(n)], separator) \o pad :
        n \in {1, MaxWordLen \div 2, MaxWordLen}, k \in 1..MaxWords,
        separator \in {<<" ">>, <<"\n", "\n">>, <<".">>},
        pad \in {<< >>, <<" ">>, <<" ", " ">>}}

\* the budgets a caller passes in context_size
Budgets == 1..MaxContextSize

\* one call of trim_prompt that returns: the prompt is empty, or within
\* the budget, or so far over it that chunk_size is below MIN_CHUNK_SIZE
TrimReturn ==
    /\ trm.st = "called"
    /\ LET prompt == trm.prompt
           length == TokenCount(prompt, trm.chars_per_token)
           chunk_size == ChunkSize(prompt, length, trm.context_size)
       IN  \/ /\ prompt = << >> \/ length <= trm.context_size
              /\ trm' = [trm EXCEPT !.st = "returned", !.value = prompt]
           \/ /\ prompt # << >>
              /\ length > trm.context_size
              /\ chunk_size < MIN_CHUNK_SIZE
              /\ trm' = [trm EXCEPT !.st = "returned",
                                    !.value = Prefix(prompt, MIN_CHUNK_SIZE)]
    /\ UNCHANGED <<inv, br, calls, scr, chain, llm, txt, svc, swp>>

\* one call of trim_prompt that goes on to the recursive call: on the
\* first chunk of the splitter, or on prompt[:chunk_size] when that chunk
\* is as long as the prompt
TrimRecurse ==
    /\ trm.st = "called"
    /\ LET prompt == trm.prompt
           length == TokenCount(prompt, trm.chars_per_token)
           chunk_size == ChunkSize(prompt, length, trm.context_size)
           r == split_text(prompt, DefaultSeparators, chunk_size, 0)
           trimmed_prompt == IF r.final_chunks # << >>
                             THEN r.final_chunks[1].doc ELSE << >>
       IN  /\ prompt # << >>
           /\ length > trm.context_size
           /\ chunk_size >= MIN_CHUNK_SIZE
           /\ IF r.raised
              THEN trm' = [trm EXCEPT !.st = "RecursionError"]
              ELSE IF Len(trimmed_prompt) = Len(prompt)
              THEN trm' = [trm EXCEPT !.prompt = Prefix(prompt, chunk_size),
                                      !.paths = Append(@, "truncate")]
              ELSE trm' = [trm EXCEPT !.prompt = trimmed_prompt,
                                      !.paths = Append(@, "first_chunk")]
    /\ UNCHANGED <<inv, br, calls, scr, chain, llm, txt, svc, swp>>

\* the caller trims the text it got back once more, with the same budget
TrimAgain ==
    /\ trm.st = "returned"
    /\ trm.pass = 1
    /\ trm' = [trm EXCEPT !.st = "called", !.pass = 2, !.prompt = trm.value,
                          !.first = trm.value, !.paths = << >>]
    /\ UNCHANGED <<inv, br, calls, scr, chain, llm, txt, svc, swp>>

\* ------------------------------------- loader/text_process/recursive_text.py
\* the default of `separators` of RecursiveTextSplitter,
\* ["\n\n", "\n", " ", ""]
DefaultPositionSeparators == << <<"\n", "\n">>, <<"\n">>, <<" ">>, << >> >>
\* the lists a caller passes in `separators`
PositionSeparatorLists ==
    {DefaultPositionSeparators, << <<" ">> >>, << <<"\n">>, << >> >>}

\* _split_text: the non-empty pieces of text.split(separator), or [text]
\* for the empty separator
rts_split_text(text, separator) ==
    IF separator # << >>
    THEN SelectSeq(Split(text, separator), LAMBDA piece : piece # << >>)
    ELSE <<text>>

\* text.rstrip(chars): the trailing characters that are in chars are removed
RECURSIVE RStripChars(_, _)
RStripChars(text, chars) ==
    IF text # << >> /\ \E i \in 1..Len(chars) : chars[i] = text[Len(text)]
    THEN RStripChars(Front(text), chars)
    ELSE text

\* _merge_splits: the for loop over splits from position i on, and the last
\* append after it; the positions are counted from 0 as in the code
RECURSIVE PositionsLoop(_, _, _, _, _, _, _, _)
PositionsLoop(splits, separator, chunk_size, chunk_overlap, i, merged, buffer, start_idx) ==
    IF i > Len(splits)
    THEN IF buffer # << >>
         THEN Append(merged,
                     <<start_idx,
                       start_idx + Len(RStripChars(buffer, separator))>>)
         ELSE merged
    ELSE LET piece == splits[i]
         IN  IF Len(buffer) + Len(piece) < chunk_size
             THEN PositionsLoop(splits, separator, chunk_size, chunk_overlap,
                                i + 1, merged, buffer \o piece \o separator,
                                start_idx)
             ELSE IF buffer # << >>
             THEN LET end_idx ==
                          start_idx + Len(RStripChars(buffer, separator))
                  IN  PositionsLoop(splits, separator, chunk_size,
                                    chunk_overlap, i + 1,
                                    Append(merged, <<start_idx, end_idx>>),
                                    piece \o separator,
                                    end_idx - chunk_overlap)
             ELSE PositionsLoop(splits, separator, chunk_size, chunk_overlap,
                                i + 1,
                                Append(merged,
                                       <<start_idx, start_idx + Len(piece)>>),
                                buffer, start_idx + Len(piece))

rts_merge_splits(splits, separator, chunk_size, chunk_overlap) ==
    PositionsLoop(splits, separator, chunk_size, chunk_overlap, 1, << >>,
                  << >>, 0)

\* for s in splits: a piece shorter than chunk_size is kept, a longer one
\* is split by separators[0] when a separator is left
RECURSIVE NewSplits(_, _, _, _)
NewSplits(splits, separators, chunk_size, i) ==
    IF i > Len(splits) THEN << >>
    ELSE (IF Len(splits[i]) < chunk_size \/ separators = << >>
          THEN <<splits[i]>>
          ELSE rts_split_text(splits[i], separators[1]))
         \o NewSplits(splits, separators, chunk_size, i + 1)

\* if len(splits) == 1 and len(separators) > 0: separators.pop(0)
PopIfOne(splits, separators) ==
    IF Len(splits) = 1 /\ Len(separators) > 0 THEN Tail(separators)
    ELSE separators

\* while len(splits) > 1 or len(separators) > 0
WhileCondition(splits, separators) ==
    Len(splits) > 1 \/ Len(separators) > 0

\* split_with_positions up to the while: the first separator is popped and
\* the text is split by it
SwpCall ==
    /\ swp.st = "called"
    /\ swp' = [swp EXCEPT !.st = "while",
                          !.separator = Head(swp.separators),
                          !.separators = Tail(swp.separators),
                          !.splits = rts_split_text(swp.text,
                                                    Head(swp.separators))]
    /\ UNCHANGED <<inv, br, calls, scr, chain, llm, txt, svc, trm>>

\* the test of the while: the body is entered, or the loop is left and the
\* merged positions are returned
SwpWhile ==
    /\ swp.st = "while"
    /\ IF WhileCondition(swp.splits, swp.separators)
       THEN swp' = [swp EXCEPT !.st = "body"]
       ELSE swp' = [swp EXCEPT !.st = "returned",
                               !.merged = rts_merge_splits(swp.splits,
                                                           swp.separator,
                                                           swp.chunk_size,
                                                           swp.chunk_overlap)]
    /\ UNCHANGED <<inv, br, calls, scr, chain, llm, txt, svc, trm>>

\* one pass of the body of the while, back to its test
SwpBody ==
    /\ swp.st = "body"
    /\ LET new_splits == NewSplits(swp.splits, swp.separators,
                                   swp.chunk_size, 1)
       IN  swp' = [swp EXCEPT !.st = "while",
                              !.splits = new_splits,
                              !.separators = PopIfOne(new_splits,
                                                      swp.separators)]
    /\ UNCHANGED <<inv, br, calls, scr, chain, llm, txt, svc, trm>>

\* ------------------------------------------------------ search_services.py
\* One SearchServices instance and the coroutines that use it.  The owner
\* is main() of test_search_services.py (one search, then cleanup) or one
\* deep_research call (one search per branch task, inside the gate of the
\* call's semaphore; deep_research has no call of cleanup).  manager is
\* FALSE for the firecrawl service (self.manager = None).
\* call[i]: "wait" (not started), "setup" (inside await manager.setup()),
\* "search" (inside the awaited search of the backend), "done", "raised".

\* ensure_initialized up to its first suspension: the flag is tested, and
\* manager.setup() is started when it is not set
EnsureInitialized(i) ==
    IF svc.manager /\ ~svc.initialized
    THEN svc' = [svc EXCEPT !.call[i] = "setup", !.setups = @ + 1,
                            !.semaphore = IF svc.owner = "deep_research"
                                          THEN @ - 1 ELSE @]
    ELSE svc' = [svc EXCEPT !.call[i] = "search",
                            !.semaphore = IF svc.owner = "deep_research"
                                          THEN @ - 1 ELSE @]

\* the caller enters search() (a branch task first takes a permit)
SvcSearch(i) ==
    /\ svc.st = "open"
    /\ svc.call[i] = "wait"
    /\ svc.owner = "deep_research" => svc.semaphore > 0
    /\ EnsureInitialized(i)
    /\ UNCHANGED <<inv, br, calls, scr, chain, llm, txt, trm, swp>>

\* manager.setup() returns: self._initialized = True, and search goes on
\* to the backend
SvcSetupReturn(i) ==
    /\ svc.call[i] = "setup"
    /\ svc' = [svc EXCEPT !.call[i] = "search", !.initialized = TRUE]
    /\ UNCHANGED <<inv, br, calls, scr, chain, llm, txt, trm, swp>>

\* manager.setup() raises: search raises (ensure_initialized is outside
\* its try); process_query catches it and gives the permit back, main()
\* of the test is left by the exception
SvcSetupRaise(i) ==
    /\ svc.call[i] = "setup"
    /\ svc' = [svc EXCEPT !.call[i] = "raised",
                          !.semaphore = IF svc.owner = "deep_research"
                                        THEN @ + 1 ELSE @,
                          !.st = IF svc.owner = "test" THEN "raised" ELSE @]
    /\ UNCHANGED <<inv, br, calls, scr, chain, llm, txt, trm, swp>>

\* the backend returns or raises: search returns the response or
\* {"data": []}, and the branch task leaves the gate
SvcSearchReturn(i) ==
    /\ svc.call[i] = "search"
    /\ svc' = [svc EXCEPT !.call[i] = "done",
                          !.semaphore = IF svc.owner = "deep_research"
                                        THEN @ + 1 ELSE @]
    /\ UNCHANGED <<inv, br, calls, scr, chain, llm, txt, trm, swp>>

\* main() of the test calls cleanup() after its search: manager.teardown()
\* is started when the flag is set, else cleanup returns at once
SvcCleanup ==
    /\ svc.st = "open"
    /\ svc.owner = "test"
    /\ svc.cleanup = "none"
    /\ \A i \in 1..MaxCallers : svc.call[i] \in {"none", "done"}
    /\ IF svc.manager /\ svc.initialized
       THEN svc' = [svc EXCEPT !.cleanup = "teardown",
                               !.teardowns = @ + 1]
       ELSE svc' = [svc EXCEPT !.cleanup = "done", !.st = "returned"]
    /\ UNCHANGED <<inv, br, calls, scr, chain, llm, txt, trm, swp>>

\* manager.teardown() returns: self._initialized = False; main() returns
SvcTeardownReturn ==
    /\ svc.cleanup = "teardown"
    /\ svc' = [svc EXCEPT !.cleanup = "done", !.initialized = FALSE,
                          !.setups = 0, !.st = "returned"]
    /\ UNCHANGED <<inv, br, calls, scr, chain, llm, txt, trm, swp>>

\* gather() of the branch tasks is complete and deep_research returns
SvcReturn ==
    /\ svc.st = "open"
    /\ svc.owner = "deep_research"
    /\ \A i \in 1..MaxCallers : svc.call[i] \in {"none", "done", "raised"}
    /\ svc' = [svc EXCEPT !.st = "returned"]
    /\ UNCHANGED <<inv, br, calls, scr, chain, llm, txt, trm, swp>>

\* ------------------------------------------------------------ specifications
\* main_cli.py calls deep_research(query, breadth, depth, concurrency) with
\* no prior learnings and no prior urls
InitResearch ==
    /\ \E breadth \in 1..MaxBreadth, depth \in 0..MaxDepth,
          concurrency \in 1..MaxConcurrency :
          inv = [p \in InvIds |->
                   IF p = Root
                   THEN [NoInv EXCEPT !.st = "plan", !.breadth = breadth,
                                      !.depth = depth,
                                      !.concurrency = concurrency]
                   ELSE NoInv]
    /\ br = [b \in BranchIds |-> NoBranch]
    /\ calls = [p \in InvIds |->
                  IF p = Root THEN [NoCalls EXCEPT !.planner = 1] ELSE NoCalls]
    /\ scr = NoScr
    /\ chain = NoChain
    /\ llm = NoLlm
    /\ txt = NoTxt
    /\ svc = NoSvc
    /\ trm = NoTrm
    /\ swp = NoSwp

\* search_and_scrape(query, num_results, scrape_all, max_concurrent_scrapes)
\* called on its own
InitScrape ==
    /\ inv = [p \in InvIds |-> NoInv]
    /\ br = [b \in BranchIds |-> NoBranch]
    /\ calls = [p \in InvIds |-> NoCalls]
    /\ \E scrape_all \in BOOLEAN, limit \in 1..MaxScrapes :
          scr = [NoScr EXCEPT !.st = "search", !.scrape_all = scrape_all,
                              !.max_concurrent_scrapes = limit]
    /\ chain = NoChain
    /\ llm = NoLlm
    /\ txt = NoTxt
    /\ svc = NoSvc
    /\ trm = NoTrm
    /\ swp = NoSwp

Init == InitResearch \/ InitScrape

Next ==
    \/ \E p \in InvIds, m \in 0..MaxQueries : PlanReturn(p, m)
    \/ \E p \in InvIds : PlanRaise(p)
    \/ \E b \in BranchIds : Acquire(b)
    \/ \E b \in BranchIds : \E urls \in SearchOutcomes(b) : SearchReturn(b, urls)
    \/ \E b \in BranchIds : SearchRaise(b)
    \/ \E b \in BranchIds : \E l \in ExtractOutcomes(b) : ExtractReturn(b, l)
    \/ \E b \in BranchIds : ExtractRaise(b)
    \/ \E p \in InvIds : Aggregate(p)
    \/ \E results \in UrlLists : ScrSearchReturn(results)
    \/ ScrSearchRaise
    \/ \E i \in 1..MaxResults : ScrapeAcquire(i)
    \/ \E i \in 1..MaxResults, how \in {"ok", "err"} : ScrapeEnd(i, how)
    \/ ScrapeCollect

Spec == Init /\ [][Next]_vars

\* every collaborator call that is awaited eventually returns or raises, and
\* the event loop runs every task that is ready
LiveSpec == Init /\ [][Next]_vars /\ WF_vars(Next)

\* search_and_scrape on its own
NextScrape ==
    \/ \E results \in UrlLists : ScrSearchReturn(results)
    \/ ScrSearchRaise
    \/ \E i \in 1..MaxResults : ScrapeAcquire(i)
    \/ \E i \in 1..MaxResults, how \in {"ok", "err"} : ScrapeEnd(i, how)
    \/ ScrapeCollect

SpecScrape == InitScrape /\ [][NextScrape]_vars

InitBreadth ==
    /\ inv = [p \in InvIds |-> NoInv]
    /\ br = [b \in BranchIds |-> NoBranch]
    /\ calls = [p \in InvIds |-> NoCalls]
    /\ scr = NoScr
    /\ \E b0 \in 1..MaxChainBreadth : chain = [b0 |-> b0, k |-> 0, breadth |-> b0]
    /\ llm = NoLlm
    /\ txt = NoTxt
    /\ svc = NoSvc
    /\ trm = NoTrm
    /\ swp = NoSwp

NextBreadth == Halve

SpecBreadth == InitBreadth /\ [][NextBreadth]_vars

\* generate_serp_queries(query, llm_client, num_queries),
\* process_serp_result(query, search_result, llm_client,
\* num_follow_up_questions) and write_final_report(prompt, learnings,
\* visited_urls, llm_client) on every reply of the LLM
InitParse ==
    /\ inv = [p \in InvIds |-> NoInv]
    /\ br = [b \in BranchIds |-> NoBranch]
    /\ calls = [p \in InvIds |-> NoCalls]
    /\ scr = NoScr
    /\ chain = NoChain
    /\ \/ \E r \in PlannerReplies, n \in 1..MaxNum :
             llm = [NoLlm EXCEPT !.fn = "generate_serp_queries",
                                 !.st = "called", !.llm_response = r,
                                 !.num = n]
       \/ \E r \in ExtractorReplies, n \in 1..MaxNum :
             llm = [NoLlm EXCEPT !.fn = "process_serp_result",
                                 !.st = "called", !.llm_response = r,
                                 !.num = n]
       \/ \E r \in ReportReplies, visited_urls \in UrlLists :
             llm = [NoLlm EXCEPT !.fn = "write_final_report",
                                 !.st = "called", !.llm_response = r,
                                 !.visited_urls = visited_urls]
    /\ txt = NoTxt
    /\ svc = NoSvc
    /\ trm = NoTrm
    /\ swp = NoSwp

NextParse == PlannerParse \/ ExtractorParse \/ ReportParse

SpecParse == InitParse /\ [][NextParse]_vars

\* RecursiveCharacterTextSplitter(chunk_size, chunk_overlap, separators)
\* and split_text(text) on every text
InitSplit ==
    /\ inv = [p \in InvIds |-> NoInv]
    /\ br = [b \in BranchIds |-> NoBranch]
    /\ calls = [p \in InvIds |-> NoCalls]
    /\ scr = NoScr
    /\ chain = NoChain
    /\ llm = NoLlm
    /\ \E text \in Texts, chunk_size \in 1..MaxChunkSize,
          chunk_overlap \in 0..MaxChunkSize, separators \in SeparatorLists :
          txt = [NoTxt EXCEPT !.st = "new", !.text = text,
                              !.chunk_size = chunk_size,
                              !.chunk_overlap = chunk_overlap,
                              !.separators = separators]
    /\ svc = NoSvc
    /\ trm = NoTrm
    /\ swp = NoSwp

NextSplit == Construct \/ SplitText

SpecSplit == InitSplit /\ [][NextSplit]_vars

\* one SearchServices instance: created by main() of the test, which
\* searches once, or by a deep_research call with n branch tasks
InitService ==
    /\ inv = [p \in InvIds |-> NoInv]
    /\ br = [b \in BranchIds |-> NoBranch]
    /\ calls = [p \in InvIds |-> NoCalls]
    /\ scr = NoScr
    /\ chain = NoChain
    /\ llm = NoLlm
    /\ txt = NoTxt
    /\ \/ \E manager \in BOOLEAN :
             svc = [NoSvc EXCEPT !.st = "open", !.owner = "test",
                                 !.manager = manager,
                                 !.call = [i \in 1..MaxCallers |->
                                             IF i = 1 THEN "wait" ELSE "none"]]
       \/ \E manager \in BOOLEAN, n \in 0..MaxCallers,
             concurrency \in 1..MaxConcurrency :
             svc = [NoSvc EXCEPT !.st = "open", !.owner = "deep_research",
                                 !.manager = manager,
                                 !.concurrency = concurrency,
                                 !.semaphore = NewSemaphore(concurrency),
                                 !.call = [i \in 1..MaxCallers |->
                                             IF i <= n THEN "wait" ELSE "none"]]
    /\ trm = NoTrm
    /\ swp = NoSwp

NextService ==
    \/ \E i \in 1..MaxCallers : SvcSearch(i)
    \/ \E i \in 1..MaxCallers : SvcSetupReturn(i)
    \/ \E i \in 1..MaxCallers : SvcSetupRaise(i)
    \/ \E i \in 1..MaxCallers : SvcSearchReturn(i)
    \/ SvcCleanup
    \/ SvcTeardownReturn
    \/ SvcReturn

SpecService == InitService /\ [][NextService]_vars

\* RecursiveTextSplitter(chunk_size, chunk_overlap, separators) and
\* split_with_positions(text) on every text
InitPositions ==
    /\ inv = [p \in InvIds |-> NoInv]
    /\ br = [b \in BranchIds |-> NoBranch]
    /\ calls = [p \in InvIds |-> NoCalls]
    /\ scr = NoScr
    /\ chain = NoChain
    /\ llm = NoLlm
    /\ txt = NoTxt
    /\ svc = NoSvc
    /\ trm = NoTrm
    /\ \E text \in Texts, chunk_size \in 1..MaxChunkSize,
          chunk_overlap \in 0..MaxOverlap, separators \in PositionSeparatorLists :
          swp = [NoSwp EXCEPT !.st = "called", !.text = text,
                              !.chunk_size = chunk_size,
                              !.chunk_overlap = chunk_overlap,
                              !.separators = separators]

NextPositions == SwpCall \/ SwpWhile \/ SwpBody

\* the interpreter goes on running the call: a step that can be taken is
\* taken
SpecPositions ==
    InitPositions /\ [][NextPositions]_vars /\ WF_vars(NextPositions)

\* trim_prompt(prompt, context_size) on every prompt and budget
InitTrim ==
    /\ inv = [p \in InvIds |-> NoInv]
    /\ br = [b \in BranchIds |-> NoBranch]
    /\ calls = [p \in InvIds |-> NoCalls]
    /\ scr = NoScr
    /\ chain = NoChain
    /\ llm = NoLlm
    /\ txt = NoTxt
    /\ svc = NoSvc
    /\ \E prompt \in Prompts, context_size \in Budgets,
          chars_per_token \in 1..MaxCharsPerToken :
          trm = [NoTrm EXCEPT !.st = "called", !.text = prompt,
                              !.context_size = context_size,
                              !.chars_per_token = chars_per_token,
                              !.pass = 1, !.prompt = prompt]
    /\ swp = NoSwp

NextTrim == TrimReturn \/ TrimRecurse \/ TrimAgain

SpecTrim == InitTrim /\ [][NextTrim]_vars

\* -------------------------------------------------------------- properties
Started(p) == inv[p].st # "none"
Finished(p) == inv[p].st \in {"done", "raised"}
SetOf(bag) == BagToSet(bag)

\* the model has room for every recursive call the code makes
TreeRoom ==
    \A b \in BranchIds :
        (br[b].st = "extract" /\ ShouldRecurse(NewDepth(inv[Front(b)].depth)))
            => Len(b) < MaxNest

\* C1: when every awaited call comes back, the top-level deep_research
\* ends, and by then every invocation that was started has ended too (it
\* reached its aggregation, or its own planner call raised instead of
\* returning); no recursive call is ever left without room: the invocation
\* tree is finite.
C1_Terminates ==
    /\ []TreeRoom
    /\ [](Finished(Root) => \A p \in InvIds : Started(p) => Finished(p))
    /\ <>(Started(Root) => Finished(Root))

C1_Witness ==
    /\ inv[Root].st = "done"
    /\ inv[Root].depth = 2
    /\ inv[Root].serp_queries = 2
    /\ \E p \in InvIds : Len(p) = 1 /\ inv[p].st = "done" /\ inv[p].serp_queries > 0

\* the branch tasks of p inside `async with semaphore`
Gated(p) == {b \in Tasks(p) : br[b].st \in {"search", "extract", "recurse"}}
\* the scrape tasks inside `async with semaphore`
Scraping == {i \in 1..MaxResults : scr.task[i] = "run"}

\* C2: at most `concurrency` branch tasks of one invocation, and at most
\* max_concurrent_scrapes scrapes of one search_and_scrape, are inside the
\* gated section at the same time.
C2_GateBound ==
    /\ \A p \in InvIds :
          Started(p) => Cardinality(Gated(p)) <= inv[p].concurrency
    /\ scr.st # "none" => Cardinality(Scraping) <= scr.max_concurrent_scrapes

C2_Witness ==
    \E p \in InvIds :
        /\ inv[p].st = "gather"
        /\ Cardinality(Tasks(p)) > inv[p].concurrency
        /\ Cardinality(Gated(p)) = inv[p].concurrency
        /\ \E b \in Tasks(p) : br[b].st = "wait"

\* C3: a branch that raised contributes the empty result; when the
\* invocation has returned, every one of its branches is done and its result
\* is part of the aggregate; an invocation never raises because of a branch
\* (it raises only from its own planner call, before any branch exists).
C3_BranchIsolation ==
    /\ \A b \in BranchIds :
          (br[b].st = "done" /\ br[b].failed) =>
              /\ br[b].result = EmptyResult
              /\ inv[Front(b)].st \in {"gather", "done"}
    /\ \A p \in InvIds :
          /\ inv[p].st = "raised" => Tasks(p) = {}
          /\ inv[p].st = "done" =>
                \A b \in Tasks(p) :
                    /\ br[b].st = "done"
                    /\ SetOf(br[b].result.learnings)
                           \subseteq SetOf(inv[p].result.learnings)
                    /\ SetOf(br[b].result.visited_urls)
                           \subseteq SetOf(inv[p].result.visited_urls)

C3_Witness ==
    \E p \in InvIds : \E b1, b2 \in Tasks(p) :
        /\ p # Root
        /\ inv[p].st = "done"
        /\ br[b1].failed
        /\ ~br[b2].failed
        /\ br[b2].result.learnings # EmptyBag
        /\ br[b2].result.visited_urls # EmptyBag

\* C4: the value an invocation returns holds each learning (url) exactly
\* once when some branch returned it and not at all otherwise.
C4_SetUnion ==
    \A p \in InvIds :
        inv[p].st = "done" =>
            /\ \A e \in {"l1", "l2"} :
                  CopiesIn(e, inv[p].result.learnings) =
                      IF \E b \in Tasks(p) : BagIn(e, br[b].result.learnings)
                      THEN 1 ELSE 0
            /\ \A e \in {"u1", "u2"} :
                  CopiesIn(e, inv[p].result.visited_urls) =
                      IF \E b \in Tasks(p) : BagIn(e, br[b].result.visited_urls)
                      THEN 1 ELSE 0

C4_Witness ==
    \E p \in InvIds : \E b1, b2 \in Tasks(p) :
        /\ inv[p].st = "done"
        /\ b1 # b2
        /\ BagIn("l1", br[b1].result.learnings)
        /\ BagIn("l1", br[b2].result.learnings)
        /\ CopiesIn("u1", br[b1].result.visited_urls) = 2
        /\ ~BagIn("u2", br[b1].result.visited_urls)
        /\ BagIn("u2", br[b2].result.visited_urls)

\* C5: an invocation whose planner returned no query returns its prior
\* learnings and prior urls unchanged.
C5_EmptyPlanKeepsPrior ==
    \A p \in InvIds :
        (inv[p].st = "done" /\ inv[p].serp_queries = 0) =>
            /\ inv[p].result.learnings = inv[p].learnings
            /\ inv[p].result.visited_urls = inv[p].visited_urls

\* C6: an invocation whose planner returned no query has no branch task and
\* made no search, no extractor and no recursive call: the planner call is
\* its only collaborator call.
C6_EmptyPlanNoCalls ==
    \A p \in InvIds :
        (inv[p].st \in {"gather", "done"} /\ inv[p].serp_queries = 0) =>
            /\ Tasks(p) = {}
            /\ calls[p] = [planner |-> 1, search |-> 0, extract |-> 0,
                           recurse |-> 0]

C6_Witness ==
    \E p \in InvIds :
        /\ p # Root
        /\ inv[p].st = "done"
        /\ inv[p].serp_queries = 0
        /\ inv[p].learnings # EmptyBag
        /\ calls[Front(p)].search > 0

\* b >> k
Shr(b, k) == b \div (2 ^ k)

\* C7: the breadth reached by applying new_breadth k times to b is
\* max(1, b >> k).
C7_BreadthDecay == chain.breadth = Max(1, Shr(chain.b0, chain.k))

C7_Witness == chain.b0 = 13 /\ chain.k = 2 /\ chain.breadth = 3

\* C8: a recursive invocation is called by the branch it is named after,
\* with the caller's depth minus one, that depth being > 0, and the caller's
\* concurrency; an invocation of depth <= 1 makes no recursive call, and
\* invocations are nested at most d deep under a root of depth d >= 1.
C8_DepthDecreases ==
    /\ \A p \in InvIds \ {Root} :
          Started(p) =>
              /\ br[p].st \in {"recurse", "done"}
              /\ inv[p].depth = inv[Front(p)].depth - 1
              /\ inv[p].depth > 0
              /\ inv[p].concurrency = inv[Front(p)].concurrency
              /\ Len(p) + 1 <= inv[Root].depth
    /\ \A p \in InvIds : inv[p].depth <= 1 => calls[p].recurse = 0

C8_Witness ==
    \E p \in InvIds \ {Root} :
        /\ inv[p].st = "done"
        /\ inv[p].depth = 1
        /\ calls[p].extract > 0
        /\ \E b \in Tasks(p) : ~br[b].failed

\* C9: an invocation with a non-empty plan returns every prior learning and
\* every prior url it was called with.
C9_NeverShrinks ==
    \A p \in InvIds :
        (inv[p].st = "done" /\ inv[p].serp_queries > 0) =>
            /\ SetOf(inv[p].learnings) \subseteq SetOf(inv[p].result.learnings)
            /\ SetOf(inv[p].visited_urls)
                   \subseteq SetOf(inv[p].result.visited_urls)

\* C10: over all recursion levels of one top-level call, at most
\* `concurrency` branch tasks are executing search or extraction.
C10_GlobalBound ==
    Cardinality({b \in BranchIds : br[b].st \in {"search", "extract"}})
        <= Max(1, inv[Root].concurrency)

\* What deep_research returns as a function of the recorded responses alone
\* (the planner's reply of every invocation, the search and extractor
\* replies of every branch) and of the arguments of the top-level call:
\* nothing in it depends on the order in which the branches ran.
RECURSIVE ExpectedInv(_, _, _, _, _), ExpectedBranch(_, _, _, _, _)
ExpectedInv(p, breadth, depth, L, U) ==
    LET n == TakeQueries(inv[p].llm_queries, breadth)
        r(i) == ExpectedBranch(Append(p, i), breadth, depth, L, U)
    IN  [learnings |-> UNION {r(i).learnings : i \in 1..n},
         visited_urls |-> UNION {r(i).visited_urls : i \in 1..n}]
ExpectedBranch(b, breadth, depth, L, U) ==
    LET none == [learnings |-> {}, visited_urls |-> {}]
        all_l == L \cup SetOf(br[b].new_learnings)
        all_u == U \cup SetOf(br[b].new_urls)
    IN  IF br[b].raised_in \in {"search", "process_serp_result"} THEN none
        ELSE IF ShouldRecurse(NewDepth(depth))
             THEN IF inv[b].st = "raised" THEN none
                  ELSE ExpectedInv(b, NewBreadth(breadth), NewDepth(depth),
                                   all_l, all_u)
             ELSE [learnings |-> all_l, visited_urls |-> all_u]

\* C11: the set of learnings and the set of urls the top-level call returns
\* are determined by the responses of planner, search and extractor: two runs
\* with the same responses return the same sets whatever the order in which
\* their branches ran and completed.
C11_ScheduleIndependent ==
    inv[Root].st = "done" =>
        LET e == ExpectedInv(Root, inv[Root].breadth, inv[Root].depth, {}, {})
        IN  /\ SetOf(inv[Root].result.learnings) = e.learnings
            /\ SetOf(inv[Root].result.visited_urls) = e.visited_urls

\* two root branches found different urls, the first one's subtree returned
\* nothing, the second one's returned its own finds only
C11_Witness ==
    /\ inv[Root].st = "done"
    /\ inv[Root].depth = 2
    /\ br[<<1>>].new_urls # EmptyBag
    /\ br[<<1>>].result = EmptyResult
    /\ ~br[<<1>>].failed
    /\ SetOf(inv[Root].result.visited_urls) = {"u2"}
    /\ inv[Root].result.learnings # EmptyBag

\* C12: no step changes the prior learnings or the prior urls an invocation
\* was called with: what a branch merges goes into new lists, so its
\* siblings and the caller see the same prior before and after the step.
C12_PriorUnchanged ==
    [][\A p \in InvIds :
          Started(p) =>
              /\ inv'[p].learnings = inv[p].learnings
              /\ inv'[p].visited_urls = inv[p].visited_urls]_vars

C12_Witness ==
    \E p \in InvIds : \E b1, b2 \in Tasks(p) :
        /\ inv[p].learnings # EmptyBag
        /\ br[b1].st = "done"
        /\ ~br[b1].failed
        /\ br[b1].result.learnings # inv[p].learnings
        /\ br[b1].result.visited_urls # inv[p].visited_urls
        /\ br[b2].st \in {"wait", "search", "extract"}

\* the branches under invocation p, at every level
Subtree(p) ==
    {b \in BranchIds : Len(b) > Len(p) /\ SubSeq(b, 1, Len(p)) = p
                                       /\ br[b].st # "none"}

\* C13: when an invocation has returned, every branch below it, at every
\* level of the recursion, is done and every invocation below it has ended.
C13_GatherAll ==
    \A p \in InvIds :
        inv[p].st = "done" =>
            \A b \in Subtree(p) :
                /\ br[b].st = "done"
                /\ b \in InvIds => (Started(b) => Finished(b))

C13_Witness ==
    /\ inv[Root].st = "done"
    /\ Cardinality(Tasks(Root)) = 2
    /\ \E b \in Subtree(Root) : Len(b) = 2 /\ ~br[b].failed
    /\ \E b \in Tasks(Root) : br[b].failed

\* C14: whatever number of queries the LLM returns, the plan holds at most
\* `breadth` of them and the invocation starts at most `breadth` branches.
C14_PlanBound ==
    \A p \in InvIds :
        inv[p].st \in {"gather", "done"} =>
            /\ inv[p].serp_queries <= inv[p].breadth
            /\ Cardinality(Tasks(p)) <= inv[p].breadth

C14_Witness ==
    \E p \in InvIds :
        /\ inv[p].st = "gather"
        /\ inv[p].llm_queries > inv[p].breadth
        /\ Cardinality(Tasks(p)) = inv[p].breadth

\* C16: SearchServices.search never raises into the branch that called it:
\* a failure of the search or scrape provider comes back as {"data": []}.
C16_SearchNeverRaises ==
    \A b \in BranchIds : br[b].raised_in # "search"

\* the positions of search_results whose url is u and whose scrape
\* succeeded
OkAt(u) ==
    {i \in 1..Len(scr.search_results) :
        scr.search_results[i] = u /\ scr.task[i] = "ok"}

\* C17 as stated: every successful scrape result is found in
\* scraped_contents under the url of its input position, and a url is
\* absent only when a scrape of it failed.
C17_EachResultStored ==
    scr.st = "done" =>
        /\ \A i \in 1..Len(scr.search_results) :
              scr.task[i] = "ok" =>
                  /\ scr.search_results[i] \in DOMAIN scr.scraped_contents
                  /\ scr.scraped_contents[scr.search_results[i]] = i
        /\ \A i \in 1..Len(scr.search_results) :
              scr.search_results[i] \notin DOMAIN scr.scraped_contents =>
                  \E j \in 1..Len(scr.search_results) :
                      /\ scr.search_results[j] = scr.search_results[i]
                      /\ scr.task[j] = "err"

\* C17, amended: when search_and_scrape has returned, every scrape has
\* ended, by returning or by raising, whatever the others did; a url is a
\* key of scraped_contents exactly when some scrape of it succeeded, and it
\* is bound to the result of the last input position where its scrape
\* succeeded (with pairwise distinct urls: each successful result under its
\* own url, only the failed urls absent).
C17_ScrapeIsolation ==
    (scr.st = "done" /\ scr.scrape_all) =>
        /\ \A i \in 1..Len(scr.search_results) : scr.task[i] \in {"ok", "err"}
        /\ DOMAIN scr.scraped_contents =
               {u \in {"u1", "u2"} : OkAt(u) # {}}
        /\ \A u \in DOMAIN scr.scraped_contents :
              /\ scr.scraped_contents[u] \in OkAt(u)
              /\ \A j \in OkAt(u) : j <= scr.scraped_contents[u]

C17_Witness ==
    /\ scr.st = "done"
    /\ scr.search_results = <<"u1", "u2", "u1">>
    /\ scr.task = <<"ok", "err", "ok">>
    /\ scr.scraped_contents = [u \in {"u1"} |-> 3]

\* the reply has the shape the prompt asked for
Conforms(r) ==
    /\ r.kind = "object"
    /\ ~r.extra
    /\ IF llm.fn = "generate_serp_queries"
       THEN /\ r.queries.kind = "array"
            /\ \A i \in 1..Len(r.queries.items) : r.queries.items[i] = "good"
       ELSE /\ r.learnings.kind = "array"
            /\ \A i \in 1..Len(r.learnings.items) :
                  r.learnings.items[i] = "string"
            /\ r.followUpQuestions.kind = "array"
            /\ \A i \in 1..Len(r.followUpQuestions.items) :
                  r.followUpQuestions.items[i] = "string"

\* C15: on a reply that does not have the expected shape,
\* generate_serp_queries returns the empty sequence and process_serp_result
\* returns empty learnings and follow-ups; neither raises.
C15_MalformedNeverFatal ==
    (llm.st \in {"returned", "raised"} /\ ~Conforms(llm.llm_response)) =>
        /\ llm.st = "returned"
        /\ IF llm.fn = "generate_serp_queries"
           THEN llm.value = << >>
           ELSE llm.value = [learnings |-> EmptyArray,
                             followUpQuestions |-> EmptyArray]

\* the texts of the chunks split_text returned
Docs == [i \in 1..Len(txt.final_chunks) |-> txt.final_chunks[i].doc]

\* no separator of the splitter can split doc
Atomic(doc) ==
    \A k \in 1..Len(txt.separators) :
        IF txt.separators[k] = << >> THEN Len(doc) <= 1
        ELSE ~In(txt.separators[k], doc)

\* C18: every chunk split_text returns is at most chunk_size long, unless
\* it is a single piece that no separator can split.
C18_ChunkSizeBound ==
    txt.st = "returned" =>
        \A i \in 1..Len(Docs) :
            Len(Docs[i]) <= txt.chunk_size \/ Atomic(Docs[i])

\* the text a chunk has in common with the chunk closed before it by the
\* same merge: the pieces kept from that chunk, joined as both chunks join
\* them, without the whitespace that strip() may have taken from either
Shared(chunk) == Strip(Join(chunk.kept, chunk.separator))

\* C19: a chunk shares at most chunk_overlap characters with the chunk
\* before it, and with chunk_overlap = 0 no piece that holds text is in two
\* chunks.
C19_OverlapBound ==
    txt.st = "returned" =>
        \A i \in 1..Len(txt.final_chunks) :
            /\ Len(Shared(txt.final_chunks[i])) <= txt.chunk_overlap
            /\ txt.chunk_overlap = 0 =>
                  \A j \in 1..Len(txt.final_chunks[i].kept) :
                      txt.final_chunks[i].kept[j] = << >>

\* rest is docs[i], docs[i+1], ... put one after the other, each without
\* some head of it (what it shares with the chunk before it)
RECURSIVE CanRebuild(_, _, _)
CanRebuild(docs, i, rest) ==
    IF i > Len(docs) THEN rest = << >>
    ELSE \E k \in 0..Len(docs[i]) :
            LET part == SubSeq(docs[i], k + 1, Len(docs[i]))
            IN  /\ Len(part) <= Len(rest)
                /\ SubSeq(rest, 1, Len(part)) = part
                /\ CanRebuild(docs, i + 1,
                              SubSeq(rest, Len(part) + 1, Len(rest)))

\* C20 as stated: the chunks, overlaps counted once, put one after the
\* other give the input text back, so that no character of it is lost.
C20_Lossless ==
    txt.st = "returned" => CanRebuild(Docs, 1, txt.text)

\* every chunk from docs[i] on is a contiguous part of text that starts at
\* or after position from, and at or after the start of the chunk before it
RECURSIVE InOrder(_, _, _, _)
InOrder(docs, i, text, from) ==
    IF i > Len(docs) THEN TRUE
    ELSE \E pos \in from..Len(text) :
            /\ OccursAt(docs[i], text, pos)
            /\ InOrder(docs, i + 1, text, pos)

Count(c, text) == Cardinality({i \in 1..Len(text) : text[i] = c})

RECURSIVE CountIn(_, _)
CountIn(c, docs) ==
    IF docs = << >> THEN 0 ELSE Count(c, Head(docs)) + CountIn(c, Tail(docs))

\* the characters that are neither whitespace nor part of a separator
Letters ==
    {c \in Chars \ Whitespace :
        \A k \in 1..Len(txt.separators) :
            \A j \in 1..Len(txt.separators[k]) : txt.separators[k][j] # c}

\* C20, amended: the chunks are contiguous parts of the input, in the order
\* of the input, and what is lost is only separators and whitespace: every
\* character that is neither whitespace nor part of a separator of the
\* splitter is in the chunks at least as often as in the input, and exactly
\* as often when chunk_overlap = 0.
C20_KeepsContent ==
    txt.st = "returned" =>
        /\ InOrder(Docs, 1, txt.text, 1)
        /\ \A c \in Letters :
              /\ Count(c, txt.text) <= CountIn(c, Docs)
              /\ txt.chunk_overlap = 0 => Count(c, txt.text) = CountIn(c, Docs)

C20_Witness ==
    /\ txt.st = "returned"
    /\ txt.chunk_overlap > 0
    /\ Len(Docs) >= 2
    /\ \E i \in 1..Len(Docs) : txt.final_chunks[i].kept # << >>
    /\ ~CanRebuild(Docs, 1, txt.text)
    /\ CountIn("a", Docs) > Count("a", txt.text)

\* C21: split_text of a constructed splitter ends by returning its chunks:
\* it never ends in an error, and never recurses without end (which Python
\* ends with RecursionError).
C21_SplitTerminates ==
    txt.st # "RecursionError"

\* C26: a deep_research call with depth = 0 starts no search and no
\* extraction.
C26_DepthZeroStops ==
    inv[Root].depth = 0 =>
        /\ calls[Root].search = 0
        /\ calls[Root].extract = 0

\* the branch tasks of p waiting for a permit of p's semaphore
Waiting(p) == {b \in Tasks(p) : br[b].st = "wait"}

\* every permit of p's semaphore is either free or held by one branch task
\* of p inside `async with semaphore`
PermitsConserved(p) ==
    inv[p].semaphore + Cardinality(Gated(p)) = inv[p].concurrency

\* C27: the gating cannot deadlock.  Every permit taken is given back, on
\* the return path and on the exception path alike: free permits plus
\* branches inside the gate always make up `concurrency`, and an invocation
\* that has returned has all its permits free.  A waiting branch needs a
\* permit of its own invocation only: whenever fewer than `concurrency` of
\* its siblings are inside the gate it can acquire, whatever permits the
\* branches above it hold while they await the recursive call.  And every
\* waiting branch eventually acquires: from some point on no branch waits.
C27_NoDeadlock ==
    /\ [](\A p \in InvIds :
            /\ inv[p].st \in {"gather", "done"} => PermitsConserved(p)
            /\ inv[p].st = "done" => inv[p].semaphore = inv[p].concurrency
            /\ \A b \in Waiting(p) :
                  Cardinality(Gated(p)) < inv[p].concurrency
                      => ENABLED Acquire(b))
    /\ <>[](\A p \in InvIds : Waiting(p) = {})

\* concurrency = 1: a branch holds the only permit of the top-level call
\* while it awaits its recursive call, a sibling waits for that permit, and
\* a branch of the recursive call is inside the gate of its own invocation,
\* after a branch of that invocation took the exception path
C27_Witness ==
    \E b \in BranchIds :
        /\ Len(b) = 1
        /\ inv[Root].concurrency = 1
        /\ inv[Root].semaphore = 0
        /\ br[b].st = "recurse"
        /\ Waiting(Root) # {}
        /\ Gated(b) # {}
        /\ \E c \in Tasks(b) : br[c].st = "done" /\ br[c].failed

\* C28: on one SearchServices instance that has a manager, manager.setup()
\* is executed at most once between cleanups, also while several search()
\* calls are in flight on it.
C28_SetupOnce ==
    svc.manager => svc.setups <= 1

\* C29: an instance initialised by search() is cleaned up before its owner
\* returns: after search() and then cleanup() the manager was torn down
\* exactly once and the instance is uninitialised, and a deep_research call
\* returns only with its instance cleaned up.
C29_CleanedUp ==
    svc.st = "returned" =>
        /\ ~svc.initialized
        /\ (svc.manager /\ svc.owner = "test") => svc.teardowns = 1

\* the lines of text from line k on
LinesFrom(text, k) == SubSeq(text, k, Len(text))

\* text ends with the section: the heading on a line of its own, an empty
\* line, and then one line "- url" for each url, in order, and nothing else
EndsWithSources(text, urls) ==
    \E k \in 1..Len(text) :
        /\ text[k] = <<"## Sources">>
        /\ Len(text) - k = Max(1, Len(urls)) + 1
        /\ text[k + 1] = << >>
        /\ \A i \in 1..Len(urls) : text[k + 1 + i] = <<"- ", urls[i]>>
        /\ urls = << >> => text[k + 2] = << >>

\* C25: whatever the LLM replied, write_final_report returns a text, and the
\* text ends with the "## Sources" section that lists every visited url
\* passed to it, one per line, each after "- ".
C25_SourcesAppended ==
    (llm.fn = "write_final_report" /\ llm.st # "called") =>
        /\ llm.st = "returned"
        /\ EndsWithSources(llm.value, llm.visited_urls)

\* C30: split_with_positions terminates: every call returns its positions,
\* also for a text that the first separator splits into two or more pieces.
C30_PositionsTerminates ==
    <>(swp.st = "returned")

\* C22: the text trim_prompt returns has at most context_size tokens.
C22_WithinBudget ==
    trm.st = "returned" =>
        TokenCount(trm.value, trm.chars_per_token) <= trm.context_size

\* C23: trim_prompt terminates: the text of every recursive call is
\* strictly shorter than the text of the call that makes it, on the
\* first-chunk path and on the truncation path alike, so a call on a text
\* of n characters makes at most n recursive calls; and the splitter it
\* uses never raises.
C23_TrimTerminates ==
    /\ [][(trm.st = "called" /\ trm'.st = "called" /\ trm'.pass = trm.pass)
              => Len(trm'.prompt) < Len(trm.prompt)]_vars
    /\ [](trm.st # "RecursionError")
    /\ [](Len(trm.paths) + Len(trm.prompt) <= Len(trm.text))

\* a call returned after a recursive call on the first chunk and one on
\* the truncated text
C23_Witness ==
    /\ trm.st = "returned"
    /\ trm.pass = 1
    /\ \E i \in 1..Len(trm.paths) : trm.paths[i] = "truncate"
    /\ \E i \in 1..Len(trm.paths) : trm.paths[i] = "first_chunk"

\* C24: trimming a trimmed text again with the same budget gives the same
\* text, and a text within the budget is returned unchanged.
C24_Idempotent ==
    trm.st = "returned" =>
        /\ trm.pass = 2 => trm.value = trm.first
        /\ (trm.pass = 1
              /\ TokenCount(trm.text, trm.chars_per_token) <= trm.context_size)
              => trm.value = trm.text

\* the second trim of a text that the first trim made shorter and that is
\* still over the budget
C24_Witness ==
    /\ trm.st = "returned"
    /\ trm.pass = 2
    /\ trm.first # trm.text
    /\ TokenCount(trm.first, trm.chars_per_token) > trm.context_size

====
